---- MODULE Spec2Model ----
(***************************************************************************)
(* Model of the customer data-quality code:                                *)
(*   submissions/clean_customers.py   clean_customer_data                  *)
(*   submissions/customer_schema.py   customer_schema, validate_customers  *)
(*                                                                         *)
(* A CSV file is a header (set of column names) and a sequence of rows of  *)
(* texts; a text is a sequence of one-character strings.  A DataFrame is   *)
(* a header, a dtype per column and a sequence of rows carrying the        *)
(* pandas index label of the row together with one cell per column.        *)
(* pandas behaviour is that of the 1.x / 2.x series, where                 *)
(* Series.astype(str) turns a missing value into the text "nan".           *)
(* Numbers are integers: a float cell holds an integral value and is       *)
(* printed with a trailing ".0"; the input pools hold no other numbers.    *)
(***************************************************************************)
EXTENDS Integers, Sequences, FiniteSets, TLC

VARIABLES input_csv, output_csv, df, rows_before, rows_after, pc, run, first_report,
          source_readable, sink_writable, validation

vars == <<input_csv, output_csv, df, rows_before, rows_after, pc, run, first_report,
          source_readable, sink_writable, validation>>

(***************************************************************************)
(* Bounds of the model.                                                    *)
(***************************************************************************)
MaxRows == 2

(***************************************************************************)
(* Texts.                                                                  *)
(***************************************************************************)
Digits == {"0", "1", "2", "3", "4", "5", "6", "7", "8", "9"}

DigitVal(c) ==
    CASE c = "0" -> 0 [] c = "1" -> 1 [] c = "2" -> 2 [] c = "3" -> 3
      [] c = "4" -> 4 [] c = "5" -> 5 [] c = "6" -> 6 [] c = "7" -> 7
      [] c = "8" -> 8 [] c = "9" -> 9

DigitChar(d) ==
    CASE d = 0 -> "0" [] d = 1 -> "1" [] d = 2 -> "2" [] d = 3 -> "3"
      [] d = 4 -> "4" [] d = 5 -> "5" [] d = 6 -> "6" [] d = 7 -> "7"
      [] d = 8 -> "8" [] d = 9 -> "9"

IsSpace(c) == c = " "

RECURSIVE LStrip(_)
LStrip(s) == IF s # <<>> /\ IsSpace(Head(s)) THEN LStrip(Tail(s)) ELSE s

RECURSIVE RStrip(_)
RStrip(s) ==
    IF s # <<>> /\ IsSpace(s[Len(s)]) THEN RStrip(SubSeq(s, 1, Len(s) - 1)) ELSE s

\* str.lstrip() in place of str.strip()
StripLeftOnly(s) == LStrip(s)

\* str.strip(): leading and trailing whitespace removed, inner kept
Strip(s) == RStrip(LStrip(s))

\* str.contains("@") / Check.str_contains("@")
Contains(s, c) == \E i \in 1..Len(s) : s[i] = c

AllDigits(s) == \A i \in 1..Len(s) : s[i] \in Digits

RECURSIVE ParseNat(_)
ParseNat(s) ==
    IF s = <<>> THEN 0
    ELSE 10 * ParseNat(SubSeq(s, 1, Len(s) - 1)) + DigitVal(s[Len(s)])

RECURSIVE FormatNat(_)
FormatNat(n) ==
    IF n < 10 THEN <<DigitChar(n)>>
    ELSE FormatNat(n \div 10) \o <<DigitChar(n % 10)>>

FormatInt(n) == IF n < 0 THEN <<"-">> \o FormatNat(0 - n) ELSE FormatNat(n)

\* an optionally signed run of digits
IsIntText(s) ==
    /\ s # <<>>
    /\ LET body == IF Head(s) = "-" THEN Tail(s) ELSE s
       IN  body # <<>> /\ AllDigits(body)

\* an integer text followed by "." and zeros only (what a float column prints)
IsFloatText(s) ==
    \E i \in 2..Len(s) :
        /\ s[i] = "."
        /\ IsIntText(SubSeq(s, 1, i - 1))
        /\ i < Len(s)
        /\ \A j \in (i + 1)..Len(s) : s[j] = "0"

IsNumText(s) == IsIntText(s) \/ IsFloatText(s)

IntPart(s) ==
    IF IsIntText(s) THEN s
    ELSE SubSeq(s, 1, (CHOOSE i \in 2..Len(s) : s[i] = ".") - 1)

ParseNum(s) ==
    LET t == IntPart(s)
    IN  IF Head(t) = "-" THEN 0 - ParseNat(Tail(t)) ELSE ParseNat(t)

(***************************************************************************)
(* Cells of a DataFrame: a missing value, a text or a number.              *)
(***************************************************************************)
NaN == [k |-> "nan", s |-> <<>>, n |-> 0]

Str(t) == [k |-> "str", s |-> t, n |-> 0]

Num(i) == [k |-> "num", s |-> <<>>, n |-> i]

IsNa(c) == c.k = "nan"

\* the texts pandas.read_csv reads as a missing value by default
NaValues ==
    { <<>>,
      <<"N", "A">>, <<"N", "/", "A">>, <<"n", "/", "a">>,
      <<"N", "a", "N">>, <<"n", "a", "n">>, <<"-", "N", "a", "N">>,
      <<"-", "n", "a", "n">>, <<"n", "u", "l", "l">>, <<"N", "U", "L", "L">>,
      <<"N", "o", "n", "e">>, <<"<", "N", "A", ">">>, <<"#", "N", "A">>,
      <<"#", "N", "/", "A">> }

\* Series.astype(str) on one cell of a column of the given dtype
AsTypeStr(c, dtype) ==
    CASE c.k = "nan" -> <<"n", "a", "n">>
      [] c.k = "str" -> c.s
      [] c.k = "num" ->
           IF dtype = "float64" THEN FormatInt(c.n) \o <<".", "0">>
           ELSE FormatInt(c.n)

(***************************************************************************)
(* CSV files and DataFrames.                                               *)
(***************************************************************************)
NoFrame == [columns |-> {}, dtypes |-> [c \in {} |-> "object"], rows |-> <<>>]

NoFile == [columns |-> {}, rows |-> <<>>]

ColumnTexts(file, c) == {file.rows[i][c] : i \in 1..Len(file.rows)}

\* dtype pandas.read_csv infers for a column
InferDtype(file, c) ==
    LET ts == ColumnTexts(file, c)
    IN  IF ts = {} THEN "object"
        ELSE IF \A t \in ts : t \in NaValues \/ IsNumText(t)
             THEN IF \A t \in ts : IsIntText(t) THEN "int64" ELSE "float64"
             ELSE "object"

ReadCell(t, dtype) ==
    IF t \in NaValues THEN NaN
    ELSE IF dtype = "object" THEN Str(t)
    ELSE Num(ParseNum(t))

\* pandas.read_csv: rows get the index labels 1, 2, ... in file order
ReadCsv(file) ==
    LET dt == [c \in file.columns |-> InferDtype(file, c)]
    IN  [columns |-> file.columns,
         dtypes  |-> dt,
         rows    |-> [i \in 1..Len(file.rows) |->
                        [index |-> i,
                         v |-> [c \in file.columns |-> ReadCell(file.rows[i][c], dt[c])]]]]

WriteCell(c, dtype) == IF IsNa(c) THEN <<>> ELSE AsTypeStr(c, dtype)

\* DataFrame.to_csv(index=False)
ToCsv(d) ==
    [columns |-> d.columns,
     rows    |-> [i \in 1..Len(d.rows) |->
                    [c \in d.columns |-> WriteCell(d.rows[i].v[c], d.dtypes[c])]]]

\* the kept rows collected newest first
RECURSIVE KeepRowsReversed(_, _)
KeepRowsReversed(rows, keep) ==
    IF rows = <<>> THEN <<>>
    ELSE IF Head(rows).index \in keep
         THEN KeepRowsReversed(Tail(rows), keep) \o <<Head(rows)>>
         ELSE KeepRowsReversed(Tail(rows), keep)

\* df[mask]: the rows whose index label is in keep, in their order
RECURSIVE KeepRows(_, _)
KeepRows(rows, keep) ==
    IF rows = <<>> THEN <<>>
    ELSE IF Head(rows).index \in keep
         THEN <<Head(rows)>> \o KeepRows(Tail(rows), keep)
         ELSE KeepRows(Tail(rows), keep)

Indexes(d) == {d.rows[i].index : i \in 1..Len(d.rows)}

Filtered(d, keep) == [d EXCEPT !.rows = KeepRows(d.rows, keep)]

(***************************************************************************)
(* Calendar dates.  pandas.to_datetime(errors="coerce") is modelled on     *)
(* texts of the ISO form yyyy-mm-dd, which parse exactly when they name a  *)
(* real calendar day, and on texts without any digit, which never parse.   *)
(***************************************************************************)
\* four digits, dash, two digits, dash, two digits
IsDatePattern(s) ==
    /\ Len(s) = 10
    /\ s[5] = "-"
    /\ s[8] = "-"
    /\ \A i \in {1, 2, 3, 4, 6, 7, 9, 10} : s[i] \in Digits

IsLeapYear(y) == (y % 4 = 0 /\ y % 100 # 0) \/ y % 400 = 0

DaysInMonth(y, m) ==
    IF m = 2 THEN (IF IsLeapYear(y) THEN 29 ELSE 28)
    ELSE IF m \in {4, 6, 9, 11} THEN 30 ELSE 31

IsCalendarDate(s) ==
    /\ IsDatePattern(s)
    /\ LET y == ParseNat(SubSeq(s, 1, 4))
           m == ParseNat(SubSeq(s, 6, 7))
           d == ParseNat(SubSeq(s, 9, 10))
       IN  /\ y >= 1
           /\ m \in 1..12
           /\ d \in 1..DaysInMonth(y, m)

\* the date text tested against the pattern only, not against the calendar
DateLooksRight(c) ==
    CASE c.k = "nan" -> FALSE
      [] c.k = "str" -> IsDatePattern(c.s)
      [] c.k = "num" -> TRUE

\* a missing date let through: only a text that fails to parse is refused
DateParsesOrMissing(c) ==
    CASE c.k = "nan" -> TRUE
      [] c.k = "str" -> IsCalendarDate(c.s)
      [] c.k = "num" -> TRUE

\* pandas.to_datetime(..., errors="coerce").notna() on one cell
DateParses(c) ==
    CASE c.k = "nan" -> FALSE
      [] c.k = "str" -> IsCalendarDate(c.s)
      [] c.k = "num" -> TRUE

(***************************************************************************)
(* The stages of clean_customer_data.                                      *)
(***************************************************************************)
\* the blank test alone, applied after astype(str) has made "nan" of a missing name
BlankNameOnly(c, dtype) == Strip(AsTypeStr(c, dtype)) = <<>>

\* line 12: isna() | (astype(str).str.strip() == "")
MissingName(c, dtype) == IsNa(c) \/ Strip(AsTypeStr(c, dtype)) = <<>>

\* lines 12-13
NameFiltered(d) ==
    Filtered(d, {d.rows[i].index : i \in
        {j \in 1..Len(d.rows) :
            ~MissingName(d.rows[j].v["full_name"], d.dtypes["full_name"])}})

\* df[c] = df[c].astype(str).str.strip(), when the column is there
\* .str.strip() without astype(str): a missing value stays missing
StrippedKeepNa(d, c) ==
    IF c \in d.columns
    THEN [d EXCEPT
            !.dtypes = [@ EXCEPT ![c] = "object"],
            !.rows = [i \in 1..Len(d.rows) |->
                        [d.rows[i] EXCEPT !.v =
                            [@ EXCEPT ![c] = IF IsNa(@) THEN NaN
                                             ELSE Str(Strip(AsTypeStr(@, d.dtypes[c])))]]]]
    ELSE d

Stripped(d, c) ==
    IF c \in d.columns
    THEN [d EXCEPT
            !.dtypes = [@ EXCEPT ![c] = "object"],
            !.rows = [i \in 1..Len(d.rows) |->
                        [d.rows[i] EXCEPT !.v =
                            [@ EXCEPT ![c] = Str(Strip(AsTypeStr(@, d.dtypes[c])))]]]]
    ELSE d

\* the strip applied to email_address as well
NormalizedWithEmail(d) ==
    Stripped(Stripped(Stripped(d, "full_name"), "location"), "email_address")

\* lines 16-19
Normalized(d) == Stripped(Stripped(d, "full_name"), "location")

\* pd.to_numeric(errors="coerce") on one cell
ToNumericCell(c) ==
    CASE c.k = "nan" -> NaN
      [] c.k = "num" -> c
      [] c.k = "str" -> IF IsNumText(c.s) THEN Num(ParseNum(c.s)) ELSE NaN

\* line 23
ToNumeric(d, c) ==
    LET cells == [i \in 1..Len(d.rows) |-> ToNumericCell(d.rows[i].v[c])]
        dtype == IF d.dtypes[c] # "object" THEN d.dtypes[c]
                 ELSE IF \E i \in 1..Len(cells) : IsNa(cells[i]) THEN "float64"
                 ELSE IF \A i \in 1..Len(cells) :
                            d.rows[i].v[c].k = "num" \/ IsIntText(d.rows[i].v[c].s)
                      THEN "int64" ELSE "float64"
    IN  [d EXCEPT
            !.dtypes = [@ EXCEPT ![c] = dtype],
            !.rows = [i \in 1..Len(d.rows) |->
                        [d.rows[i] EXCEPT !.v = [@ EXCEPT ![c] = cells[i]]]]]

MinAge == 0

MaxAge == 120

\* the range test with strict comparisons
AgeStrictlyInside(c) == IsNa(c) \/ (c.n > MinAge /\ c.n < MaxAge)

\* the range test without isna(): a comparison with NaN is False
AgeInRangeOnly(c) == ~IsNa(c) /\ c.n >= MinAge /\ c.n <= MaxAge

\* the range test without its lower bound
AgeUpperBoundOnly(c) == IsNa(c) \/ c.n <= MaxAge

\* line 24: isna() | ((age >= 0) & (age <= 120))
AgeOk(c) == IsNa(c) \/ (c.n >= MinAge /\ c.n <= MaxAge)

\* lines 22-24
AgeFiltered(d) ==
    IF "age" \in d.columns
    THEN LET n == ToNumeric(d, "age")
         IN  Filtered(n, {n.rows[i].index : i \in
                 {j \in 1..Len(n.rows) : AgeOk(n.rows[j].v["age"])}})
    ELSE d

\* the "@" test alone, without email_filled
NoAtSign(c, dtype) == ~Contains(AsTypeStr(c, dtype), "@")

\* lines 28-30: the row is dropped when email_filled & ~email_has_at
BadEmail(c, dtype) ==
    /\ ~IsNa(c) /\ Strip(AsTypeStr(c, dtype)) # <<>>
    /\ ~Contains(AsTypeStr(c, dtype), "@")

\* lines 27-30
EmailFiltered(d) ==
    IF "email_address" \in d.columns
    THEN Filtered(d, {d.rows[i].index : i \in
             {j \in 1..Len(d.rows) :
                ~BadEmail(d.rows[j].v["email_address"], d.dtypes["email_address"])}})
    ELSE d

\* keep="last" in place of keep="first"
LastOfValue(d, c, j) == \A i \in (j + 1)..Len(d.rows) : d.rows[i].v[c] # d.rows[j].v[c]

\* the first occurrence sought among the records with a parsable date only
FirstParsableOfValue(d, c, j) ==
    \A i \in 1..(j - 1) :
        \/ d.rows[i].v[c] # d.rows[j].v[c]
        \/ "date_joined" \in d.columns /\ ~DateParses(d.rows[i].v["date_joined"])

\* drop_duplicates(subset=[c], keep="first"): missing values equal each other
FirstOfValue(d, c, j) == \A i \in 1..(j - 1) : d.rows[i].v[c] # d.rows[j].v[c]

\* drop_duplicates(keep=False): every record of a duplicated email dropped
DropAllDuplicates(d) ==
    IF "email_address" \in d.columns
    THEN Filtered(d, {d.rows[i].index : i \in
             {j \in 1..Len(d.rows) :
                \A i \in 1..Len(d.rows) \ {j} :
                    d.rows[i].v["email_address"] # d.rows[j].v["email_address"]}})
    ELSE d

\* lines 33-34
Deduplicated(d) ==
    IF "email_address" \in d.columns
    THEN Filtered(d, {d.rows[i].index : i \in
             {j \in 1..Len(d.rows) : FirstOfValue(d, "email_address", j)}})
    ELSE d

\* lines 37-39
DateFiltered(d) ==
    IF "date_joined" \in d.columns
    THEN Filtered(d, {d.rows[i].index : i \in
             {j \in 1..Len(d.rows) : DateParses(d.rows[j].v["date_joined"])}})
    ELSE d

(***************************************************************************)
(* customer_schema: pandera.DataFrameSchema.  A column passes when it is   *)
(* present, has the declared dtype, holds no missing value unless it is    *)
(* nullable, and every value that is not missing passes the column's       *)
(* check.                                                                  *)
(***************************************************************************)
Genders == {<<"M">>, <<"F">>, <<"O", "t", "h", "e", "r">>}

ColumnRule(dtype, nullable, check) ==
    [dtype |-> dtype, nullable |-> nullable, check |-> check]

\* the schema with no check on email_address
customer_schema_email_unchecked ==
    [full_name     |-> ColumnRule("object", TRUE, "none"),
     email_address |-> ColumnRule("object", TRUE, "none"),
     age           |-> ColumnRule("int64", TRUE, "in_range"),
     gender        |-> ColumnRule("object", TRUE, "isin"),
     phone_number  |-> ColumnRule("object", TRUE, "none"),
     location      |-> ColumnRule("object", FALSE, "none"),
     country       |-> ColumnRule("object", FALSE, "none"),
     date_joined   |-> ColumnRule("object", FALSE, "str_matches"),
     lead_source   |-> ColumnRule("object", FALSE, "none"),
     utm_campaign  |-> ColumnRule("object", TRUE, "none"),
     utm_medium    |-> ColumnRule("object", TRUE, "none"),
     notes         |-> ColumnRule("object", TRUE, "none"),
     is_subscribed |-> ColumnRule("object", FALSE, "none")]

customer_schema ==
    [full_name     |-> ColumnRule("object", TRUE, "none"),
     email_address |-> ColumnRule("object", TRUE, "str_contains"),
     age           |-> ColumnRule("int64", TRUE, "in_range"),
     gender        |-> ColumnRule("object", TRUE, "isin"),
     phone_number  |-> ColumnRule("object", TRUE, "none"),
     location      |-> ColumnRule("object", FALSE, "none"),
     country       |-> ColumnRule("object", FALSE, "none"),
     date_joined   |-> ColumnRule("object", FALSE, "str_matches"),
     lead_source   |-> ColumnRule("object", FALSE, "none"),
     utm_campaign  |-> ColumnRule("object", TRUE, "none"),
     utm_medium    |-> ColumnRule("object", TRUE, "none"),
     notes         |-> ColumnRule("object", TRUE, "none"),
     is_subscribed |-> ColumnRule("object", FALSE, "none")]

\* line 13: Series.str.match(r"^\d{4}-\d{2}-\d{2}$"), that is re.match, whose $
\* matches at the end of the text and also before a newline that ends it
StrMatchesDatePattern(s) ==
    \/ IsDatePattern(s)
    \/ /\ Len(s) = 11
       /\ s[11] = "\n"
       /\ IsDatePattern(SubSeq(s, 1, 10))

\* the age range taken without its bounds
CheckPassesExclusive(check, c) ==
    CASE check = "none" -> TRUE
      [] check = "str_contains" -> c.k = "str" /\ Contains(c.s, "@")
      [] check = "in_range" -> c.k = "num" /\ c.n > MinAge /\ c.n < MaxAge
      [] check = "isin" -> c.k = "str" /\ c.s \in Genders
      [] check = "str_matches" -> c.k = "str" /\ StrMatchesDatePattern(c.s)

\* one value that is not missing against the check of its column
CheckPasses(check, c) ==
    CASE check = "none" -> TRUE
      [] check = "str_contains" -> c.k = "str" /\ Contains(c.s, "@")
      [] check = "in_range" -> c.k = "num" /\ c.n >= MinAge /\ c.n <= MaxAge
      [] check = "isin" -> c.k = "str" /\ c.s \in Genders
      [] check = "str_matches" -> c.k = "str" /\ StrMatchesDatePattern(c.s)

\* every column taken as optional: an absent column is no violation
ColumnViolatesIfPresent(d, c) ==
    LET rule == customer_schema[c]
    IN  /\ c \in d.columns
        /\ \/ d.dtypes[c] # rule.dtype
           \/ \E i \in 1..Len(d.rows) :
                 LET cell == d.rows[i].v[c]
                 IN  IF IsNa(cell) THEN ~rule.nullable
                     ELSE ~CheckPasses(rule.check, cell)

ColumnViolates(d, c) ==
    LET rule == customer_schema[c]
    IN  \/ c \notin d.columns
        \/ /\ c \in d.columns
           /\ \/ d.dtypes[c] # rule.dtype
              \/ \E i \in 1..Len(d.rows) :
                    LET cell == d.rows[i].v[c]
                    IN  IF IsNa(cell) THEN ~rule.nullable
                        ELSE ~CheckPasses(rule.check, cell)

ViolatingColumns(d) == {c \in DOMAIN customer_schema : ColumnViolates(d, c)}

\* customer_schema.validate(df) returns df instead of raising SchemaError
Validates(d) == ViolatingColumns(d) = {}

\* lines 6-18: the columns in the order the schema declares them
SchemaOrder ==
    <<"full_name", "email_address", "age", "gender", "phone_number", "location",
      "country", "date_joined", "lead_source", "utm_campaign", "utm_medium",
      "notes", "is_subscribed">>

\* the first column of a non-empty set in the order of the schema
FirstDeclared(S) ==
    SchemaOrder[CHOOSE i \in 1..Len(SchemaOrder) :
                    /\ SchemaOrder[i] \in S
                    /\ \A j \in 1..(i - 1) : SchemaOrder[j] \notin S]

\* what the violation of column c says: presence, then nulls, then the
\* dtype, then the check
FailureReason(d, c) ==
    IF c \notin d.columns THEN "column_not_in_dataframe"
    ELSE IF ~customer_schema[c].nullable
              /\ \E i \in 1..Len(d.rows) : IsNa(d.rows[i].v[c])
         THEN "not_nullable"
    ELSE IF d.dtypes[c] # customer_schema[c].dtype THEN "dtype"
    ELSE "check"

NotValidated == [status |-> "not_run", column |-> "", reason |-> ""]

\* line 25: validate returns the table, or raises the SchemaError of the
\* first failure; the presence of every column is settled before any value
SchemaValidate(d) ==
    LET failing == ViolatingColumns(d)
        absent  == {c \in failing : c \notin d.columns}
        named   == IF absent # {} THEN FirstDeclared(absent) ELSE FirstDeclared(failing)
    IN  IF failing = {} THEN [status |-> "passed", column |-> "", reason |-> ""]
        ELSE [status |-> "failed", column |-> named, reason |-> FailureReason(d, named)]

(***************************************************************************)
(* Input files.  A row deviates from a clean row in at most one column.    *)
(***************************************************************************)
SchemaColumns == DOMAIN customer_schema

CleanedColumns == {"full_name", "location", "age", "email_address", "date_joined"}

CleanRow ==
    [full_name     |-> <<" ", "a", " ", "b", " ">>,
     email_address |-> <<"a", "@", "b">>,
     age           |-> <<"3", "0">>,
     gender        |-> <<"M">>,
     phone_number  |-> <<"p">>,
     location      |-> <<" ", "b", " ">>,
     country       |-> <<"c">>,
     date_joined   |-> <<"2", "0", "2", "3", "-", "0", "2", "-", "2", "8">>,
     lead_source   |-> <<"l">>,
     utm_campaign  |-> <<"u">>,
     utm_medium    |-> <<"m">>,
     notes         |-> <<"n">>,
     is_subscribed |-> <<"s">>]

NameTexts == {<<>>, <<" ">>, <<" ", "N", "A", " ">>}

LocationTexts == {<<>>, <<" ">>}

AgeTexts == {<<>>, <<"-", "1">>, <<"0">>, <<"1", "2", "0">>, <<"1", "2", "1">>, <<"x">>}

EmailTexts == {<<>>, <<" ">>, <<"a", "b">>, <<"b", "@", "a">>}

DateTexts ==
    {<<>>, <<"b", "a", "d">>,
     <<"2", "0", "2", "3", "-", "0", "2", "-", "3", "0">>}

InputRows ==
    {CleanRow}
      \cup {[CleanRow EXCEPT !.full_name = t] : t \in NameTexts}
      \cup {[CleanRow EXCEPT !.location = t] : t \in LocationTexts}
      \cup {[CleanRow EXCEPT !.age = t] : t \in AgeTexts}
      \cup {[CleanRow EXCEPT !.email_address = t] : t \in EmailTexts}
      \cup {[CleanRow EXCEPT !.date_joined = t] : t \in DateTexts}

RowsUpTo(n) == UNION {[1..k -> InputRows] : k \in 0..n}

\* the file with the given header and the given rows cut down to it
FileOf(header, rows) ==
    [columns |-> header,
     rows    |-> [i \in 1..Len(rows) |-> [c \in header |-> rows[i][c]]]]

MaxPartialRows == 1

InputFiles ==
    {FileOf(SchemaColumns, rows) : rows \in RowsUpTo(MaxRows)}
      \cup UNION {{FileOf(SchemaColumns \ {c}, rows) : rows \in RowsUpTo(MaxPartialRows)}
                    : c \in CleanedColumns}

(***************************************************************************)
(* clean_customer_data(input_path, output_path), one step per stage.       *)
(***************************************************************************)
\* the count of the complete rows only, as len(df.dropna()) would give
RowsWithoutNa(d) ==
    Cardinality({i \in 1..Len(d.rows) : \A c \in d.columns : ~IsNa(d.rows[i].v[c])})

\* line 9: rows_before = len(df)
RowsBefore(d) == Len(d.rows)

\* the number of rows removed instead of the number of rows left
RowsRemoved(d) == rows_before - Len(d.rows)

\* line 42: rows_after = len(df)
RowsAfter(d) == Len(d.rows)

\* the twelve rows of the dirty sample: every row has its own email, and
\* rows 2, 3, 4, 5, 9, 10 and 12 carry one irregularity each
SampleRow(i) ==
    LET base == [CleanRow EXCEPT !.email_address = <<"u">> \o FormatNat(i) \o <<"@", "b">>]
    IN  CASE i = 2 -> [base EXCEPT !.age = <<"-", "1">>]
          [] i = 3 -> [base EXCEPT !.full_name = <<>>]
          [] i = 4 -> [base EXCEPT !.age = <<"9", "9", "9">>]
          [] i = 5 -> [base EXCEPT !.email_address = <<>>]
          [] i = 9 -> [base EXCEPT !.date_joined =
                          <<"i", "n", "v", "a", "l", "i", "d", "-", "d", "a", "t", "e">>]
          [] i = 10 -> [base EXCEPT !.email_address = <<"u">> \o FormatNat(6) \o <<"@", "b">>]
          [] i = 12 -> [base EXCEPT !.email_address = <<"n", "o", "t", "-", "v", "a", "l", "i", "d">>]
          [] OTHER -> base

SampleSize == 12

SampleFile == FileOf(SchemaColumns, [i \in 1..SampleSize |-> SampleRow(i)])

\* the columns of the tables that tests/test_2_2.py builds
TestColumns ==
    {"customer_id", "name", "age", "email", "phone", "city", "signup_date", "gender"}

\* a record of test_accepts_complete_valid_record, texts shortened
TestRow ==
    [customer_id |-> <<"C">>,
     name        |-> <<"n">>,
     age         |-> <<"3", "0">>,
     email       |-> <<"a", "@", "b">>,
     phone       |-> <<"p">>,
     city        |-> <<"c">>,
     signup_date |-> <<"2", "0", "2", "4", "-", "0", "1", "-", "1", "5">>,
     gender      |-> <<"F">>]

TestFiles == {FileOf(TestColumns, [i \in 1..k |-> TestRow]) : k \in 1..MaxRows}

NullableTextColumns == {"gender", "phone_number", "utm_campaign", "utm_medium", "notes"}

PatternTexts ==
    {<<"2", "0", "2", "3", "-", "0", "2", "-", "2", "8", "\n">>,
     <<"2", "0", "2", "4", "-", "1", "-", "5">>,
     <<"1", "5", "/", "0", "1", "/", "2", "0", "2", "4">>}

\* rows that only the validator is given: the clean row with one column
\* changed
ValidatorRows ==
    {CleanRow, [CleanRow EXCEPT !.email_address = <<"a", "@">>],
     [CleanRow EXCEPT !.lead_source = <<>>]}
      \cup {[CleanRow EXCEPT ![c] = <<>>] : c \in NullableTextColumns}
      \cup {[CleanRow EXCEPT !.date_joined = t] : t \in PatternTexts}

\* the tables handed to customer_schema.validate directly
ValidatorFiles ==
    {FileOf(SchemaColumns, rows) :
        rows \in UNION {[1..k -> ValidatorRows] : k \in 1..MaxRows}}
      \cup TestFiles

\* the files a run with an unwritable output path starts from
SmallInputFiles == {FileOf(SchemaColumns, rows) : rows \in RowsUpTo(MaxPartialRows)}

Init ==
    /\ \/ /\ source_readable = TRUE
          /\ sink_writable = TRUE
          /\ input_csv \in InputFiles \cup {SampleFile}
          /\ pc = "read"
       \/ /\ source_readable = FALSE
          /\ sink_writable = TRUE
          /\ input_csv = NoFile
          /\ pc = "read"
       \/ /\ source_readable = TRUE
          /\ sink_writable = FALSE
          /\ input_csv \in SmallInputFiles
          /\ pc = "read"
       \/ /\ source_readable = TRUE
          /\ sink_writable = TRUE
          /\ input_csv \in ValidatorFiles
          /\ pc = "validate"
    /\ output_csv = NoFile
    /\ df = NoFrame
    /\ rows_before = 0
    /\ rows_after = 0
    /\ run = 1
    /\ first_report = [rows_before |-> 0, rows_after |-> 0]
    /\ validation = NotValidated

\* lines 8-9
ReadInput ==
    /\ pc = "read"
    /\ source_readable
    /\ df' = ReadCsv(input_csv)
    /\ rows_before' = RowsBefore(ReadCsv(input_csv))
    /\ pc' = "name_filter"
    /\ UNCHANGED <<input_csv, output_csv, rows_after, run, first_report, source_readable, sink_writable, validation>>

\* validate_customers(pd.read_csv(input_path)), lines 23-25, and
\* customer_schema.validate on a table built for it
ValidateCustomers ==
    /\ pc \in {"read", "validate"}
    /\ source_readable
    /\ validation' = SchemaValidate(ReadCsv(input_csv))
    /\ pc' = "validated"
    /\ UNCHANGED <<input_csv, output_csv, df, rows_before, rows_after, run, first_report, source_readable, sink_writable>>

\* line 8 on a path that cannot be read: pd.read_csv raises, nothing catches it
ReadIOError ==
    /\ pc = "read"
    /\ ~source_readable
    /\ pc' = "io_error"
    /\ UNCHANGED <<input_csv, output_csv, df, rows_before, rows_after, run, first_report, source_readable, sink_writable, validation>>

\* lines 12-13
NameFilter ==
    /\ pc = "name_filter"
    /\ "full_name" \in df.columns
    /\ df' = NameFiltered(df)
    /\ pc' = "normalize"
    /\ UNCHANGED <<input_csv, output_csv, rows_before, rows_after, run, first_report, source_readable, sink_writable, validation>>

\* line 12 without the column: df["full_name"] raises KeyError
NameKeyError ==
    /\ pc = "name_filter"
    /\ "full_name" \notin df.columns
    /\ pc' = "raised"
    /\ UNCHANGED <<input_csv, output_csv, df, rows_before, rows_after, run, first_report, source_readable, sink_writable, validation>>

\* lines 16-19
Normalize ==
    /\ pc = "normalize"
    /\ df' = Normalized(df)
    /\ pc' = "age_filter"
    /\ UNCHANGED <<input_csv, output_csv, rows_before, rows_after, run, first_report, source_readable, sink_writable, validation>>

\* lines 22-24
AgeFilter ==
    /\ pc = "age_filter"
    /\ df' = AgeFiltered(df)
    /\ pc' = "email_filter"
    /\ UNCHANGED <<input_csv, output_csv, rows_before, rows_after, run, first_report, source_readable, sink_writable, validation>>

\* lines 27-30
EmailFilter ==
    /\ pc = "email_filter"
    /\ df' = EmailFiltered(df)
    /\ pc' = "dedup"
    /\ UNCHANGED <<input_csv, output_csv, rows_before, rows_after, run, first_report, source_readable, sink_writable, validation>>

\* lines 33-34
EmailDedup ==
    /\ pc = "dedup"
    /\ df' = Deduplicated(df)
    /\ pc' = "date_filter"
    /\ UNCHANGED <<input_csv, output_csv, rows_before, rows_after, run, first_report, source_readable, sink_writable, validation>>

\* lines 37-39
DateFilter ==
    /\ pc = "date_filter"
    /\ df' = DateFiltered(df)
    /\ pc' = "write"
    /\ UNCHANGED <<input_csv, output_csv, rows_before, rows_after, run, first_report, source_readable, sink_writable, validation>>

\* line 41 on a path that cannot be written: to_csv raises, nothing catches it
WriteIOError ==
    /\ pc = "write"
    /\ ~sink_writable
    /\ pc' = "io_error"
    /\ UNCHANGED <<input_csv, output_csv, df, rows_before, rows_after, run, first_report, source_readable, sink_writable, validation>>

\* lines 41-47
WriteOutput ==
    /\ pc = "write"
    /\ sink_writable
    /\ output_csv' = ToCsv(df)
    /\ rows_after' = RowsAfter(df)
    /\ pc' = "done"
    /\ first_report' = IF run = 1
                       THEN [rows_before |-> rows_before, rows_after |-> RowsAfter(df)]
                       ELSE first_report
    /\ UNCHANGED <<input_csv, df, rows_before, run, source_readable, sink_writable, validation>>

\* the caller runs the pipeline again on the file it wrote
Rerun ==
    /\ pc = "done"
    /\ run = 1
    /\ input_csv' = output_csv
    /\ output_csv' = NoFile
    /\ df' = NoFrame
    /\ rows_before' = 0
    /\ rows_after' = 0
    /\ pc' = "read"
    /\ run' = 2
    /\ UNCHANGED <<first_report, source_readable, sink_writable, validation>>

Next ==
    \/ ReadInput
    \/ ReadIOError
    \/ NameFilter
    \/ NameKeyError
    \/ Normalize
    \/ AgeFilter
    \/ EmailFilter
    \/ EmailDedup
    \/ DateFilter
    \/ WriteOutput
    \/ WriteIOError
    \/ Rerun
    \/ ValidateCustomers

Spec == Init /\ [][Next]_vars

(***************************************************************************)
(* Properties of the report and of the cleaned table.                      *)
(***************************************************************************)
Returned == pc = "done"

NonBlank(t) == \E i \in 1..Len(t) : t[i] # " "

IsTrimmed(t) == t = <<>> \/ (t[1] # " " /\ t[Len(t)] # " ")

\* the text the input file holds for the row a cleaned record came from
Source(r, c) == input_csv.rows[r.index][c]

CleanedRows == {df.rows[i] : i \in 1..Len(df.rows)}

\* C1: the report returned by clean_customer_data has rows_after <= rows_before.
C1_RowsNeverGrow == Returned => rows_after <= rows_before

C1_Witness == Returned /\ rows_after > 0 /\ rows_after < rows_before

\* C2: in the report, rows_before is the number of records of the input
\* table and rows_after the number of records of the table written to the sink.
C2_ReportCounts ==
    Returned =>
        /\ rows_before = Len(input_csv.rows)
        /\ rows_after = Len(output_csv.rows)
        /\ rows_after = Len(df.rows)

C2_Witness ==
    /\ Returned
    /\ Len(input_csv.rows) = 2
    /\ Len(output_csv.rows) = 1
    /\ rows_before = 2
    /\ rows_after = 1

\* C3: no record of the cleaned table has a full_name that is missing or
\* blank, and no record whose name was missing in the input is retained.
C3_NoMissingName ==
    Returned =>
        /\ \A r \in CleanedRows :
              /\ r.v["full_name"].k = "str"
              /\ NonBlank(r.v["full_name"].s)
              /\ Source(r, "full_name") \notin NaValues
              /\ NonBlank(Source(r, "full_name"))
        /\ \A i \in 1..Len(output_csv.rows) : NonBlank(output_csv.rows[i]["full_name"])

C3_Witness ==
    /\ Returned
    /\ rows_after > 0
    /\ run = 1
    /\ \E i \in 1..Len(input_csv.rows) : input_csv.rows[i]["full_name"] = <<>>

\* C4: every record of the cleaned table has full_name and location equal
\* to their own trimmed form; " a b " comes out as "a b".
C4_Trimmed ==
    Returned =>
        \A c \in {"full_name", "location"} \cap df.columns :
            /\ \A r \in CleanedRows :
                  /\ r.v[c].k = "str"
                  /\ IsTrimmed(r.v[c].s)
                  /\ Source(r, c) = <<" ", "a", " ", "b", " ">> => r.v[c].s = <<"a", " ", "b">>
                  /\ Source(r, c) = <<" ", "b", " ">> => r.v[c].s = <<"b">>
            /\ \A i \in 1..Len(output_csv.rows) : IsTrimmed(output_csv.rows[i][c])

C4_Witness ==
    /\ Returned
    /\ \E r \in CleanedRows :
          /\ Source(r, "full_name") = <<" ", "a", " ", "b", " ">>
          /\ Source(r, "location") = <<" ", "b", " ">>
          /\ r.v["full_name"].s = <<"a", " ", "b">>
          /\ r.v["location"].s = <<"b">>

\* the number an age cell stands for, before or after pd.to_numeric
AgeIs(c, n) == (c.k = "num" /\ c.n = n) \/ (c.k = "str" /\ c.s = FormatInt(n))

SourceTexts(c) ==
    IF c \in input_csv.columns
    THEN {input_csv.rows[i][c] : i \in 1..Len(input_csv.rows)}
    ELSE {}

\* C5: with an age column, every present age of the cleaned table is in
\* [0, 120], and the age filter removes no record whose age is 0 or 120.
C5_AgeRange ==
    [][/\ pc' = "done" /\ "age" \in df'.columns =>
            \A i \in 1..Len(df'.rows) :
                LET a == df'.rows[i].v["age"]
                IN  IsNa(a) \/ (a.k = "num" /\ a.n >= 0 /\ a.n <= 120)
       /\ pc = "age_filter" /\ "age" \in df.columns =>
            \A i \in 1..Len(df.rows) :
                AgeIs(df.rows[i].v["age"], 0) \/ AgeIs(df.rows[i].v["age"], 120)
                    => df.rows[i].index \in Indexes(df')]_vars

C5_Witness ==
    /\ pc = "email_filter"
    /\ run = 1
    /\ <<"1", "2", "1">> \in SourceTexts("age")
    /\ \E r \in CleanedRows : AgeIs(r.v["age"], 120)
    /\ Len(df.rows) < rows_before

BlankOrNa(c) == IsNa(c) \/ (c.k = "str" /\ ~NonBlank(c.s))

C7_UniqueEmailFirstWins ==
    [][/\ pc' = "done" /\ "email_address" \in df'.columns =>
            \A i, j \in 1..Len(df'.rows) :
                i # j /\ ~BlankOrNa(df'.rows[i].v["email_address"])
                    => df'.rows[i].v["email_address"] # df'.rows[j].v["email_address"]
       /\ pc = "dedup" /\ "email_address" \in df.columns =>
            \A j \in 1..Len(df.rows) :
                ~BlankOrNa(df.rows[j].v["email_address"]) =>
                    (df.rows[j].index \in Indexes(df')
                        <=> \A i \in 1..(j - 1) :
                               df.rows[i].v["email_address"] # df.rows[j].v["email_address"])]_vars

C7_Witness ==
    /\ pc = "date_filter"
    /\ run = 1
    /\ Len(input_csv.rows) = 2
    /\ input_csv.rows[1]["email_address"] = <<"a", "@", "b">>
    /\ input_csv.rows[2]["email_address"] = <<"a", "@", "b">>
    /\ input_csv.rows[1]["date_joined"] # input_csv.rows[2]["date_joined"]
    /\ Indexes(df) = {1}

\* C8: with a date_joined column, every record of the cleaned table has a
\* date_joined that is a valid calendar date, and every record reaching the
\* date filter with a date_joined that does not parse is removed by it.
C8_ValidDates ==
    [][/\ pc' = "done" /\ "date_joined" \in df'.columns =>
            \A i \in 1..Len(df'.rows) :
                LET t == df'.rows[i].v["date_joined"]
                IN  t.k = "str" /\ IsCalendarDate(t.s)
       /\ pc = "date_filter" /\ "date_joined" \in df.columns =>
            \A i \in 1..Len(df.rows) :
                LET t == df.rows[i].v["date_joined"]
                IN  t.k # "str" \/ ~IsCalendarDate(t.s)
                        => df.rows[i].index \notin Indexes(df')]_vars

C8_Witness ==
    /\ Returned
    /\ run = 1
    /\ <<"2", "0", "2", "3", "-", "0", "2", "-", "3", "0">> \in SourceTexts("date_joined")
    /\ <<"b", "a", "d">> \in SourceTexts("date_joined")
    /\ rows_after = 0

\* C9: idempotence: running clean_customer_data on the file it wrote yields
\* a table identical to that file's table, and the second run reports the
\* rows_after of the first run.
C9_Idempotent ==
    Returned /\ run = 2 =>
        /\ ReadCsv(output_csv) = ReadCsv(input_csv)
        /\ rows_after = first_report.rows_after

\* C10: every table the validator accepts comes out of clean_customer_data
\* with rows_after = rows_before and is accepted by the validator again.
C10_ValidatorRoundTrip ==
    Returned /\ Validates(ReadCsv(input_csv)) =>
        /\ rows_after = rows_before
        /\ Validates(ReadCsv(output_csv))

InputRowNumbers == 1..Len(input_csv.rows)

InputText(i, c) == input_csv.rows[i][c]

Present(t) == t \notin NaValues /\ NonBlank(t)

\* the violations of the cleaned-table invariants that a stage answers by
\* removing the record
MissingNameAt(i) ==
    "full_name" \in input_csv.columns
        /\ (InputText(i, "full_name") \in NaValues \/ ~NonBlank(InputText(i, "full_name")))

AgeOutOfRangeAt(i) ==
    /\ "age" \in input_csv.columns
    /\ IsNumText(InputText(i, "age"))
    /\ (ParseNum(InputText(i, "age")) < 0 \/ ParseNum(InputText(i, "age")) > 120)

EmailWithoutAtAt(i) ==
    /\ "email_address" \in input_csv.columns
    /\ Present(InputText(i, "email_address"))
    /\ \A k \in 1..Len(InputText(i, "email_address")) : InputText(i, "email_address")[k] # "@"

DuplicateEmailAt(i) ==
    /\ "email_address" \in input_csv.columns
    /\ Present(InputText(i, "email_address"))
    /\ \E j \in InputRowNumbers \ {i} :
          InputText(j, "email_address") = InputText(i, "email_address")

BadDateAt(i) ==
    /\ "date_joined" \in input_csv.columns
    /\ InputText(i, "date_joined") \notin NaValues
    /\ ~IsCalendarDate(InputText(i, "date_joined"))

UntrimmedAt(i) ==
    \E c \in {"full_name", "location"} \cap input_csv.columns : ~IsTrimmed(InputText(i, c))

RemovableViolation ==
    \E i \in InputRowNumbers :
        MissingNameAt(i) \/ AgeOutOfRangeAt(i) \/ EmailWithoutAtAt(i)
            \/ DuplicateEmailAt(i) \/ BadDateAt(i)

\* C11 as stated: whenever the input holds any violation of a cleaned-table
\* invariant, untrimmed names and locations included, rows_after < rows_before.
C11_AnyViolationShrinks ==
    Returned /\ (RemovableViolation \/ \E i \in InputRowNumbers : UntrimmedAt(i))
        => rows_after < rows_before

\* C11 amended: whenever the input holds a missing or blank name, an age
\* outside [0, 120], a present email without "@", a duplicated non-blank
\* email or a present date_joined that does not parse, the report has
\* rows_after < rows_before; untrimmed whitespace alone removes no record.
C11_RemovableViolationShrinks == Returned /\ RemovableViolation => rows_after < rows_before

C11_Witness ==
    /\ Returned
    /\ run = 1
    /\ rows_after = 1
    /\ rows_before = 2
    /\ \E i \in InputRowNumbers : DuplicateEmailAt(i)
    /\ \A i \in InputRowNumbers : ~(MissingNameAt(i) \/ AgeOutOfRangeAt(i) \/ BadDateAt(i))

\* C12: when one of full_name, location, age, email_address, date_joined is
\* absent from the input, clean_customer_data does not fail: the stage that
\* needs the column passes the table through unchanged and the others run.
C12_AbsentColumnTolerated ==
    [][/\ pc' # "raised"
       /\ pc = "name_filter" /\ "full_name" \notin df.columns => df' = df /\ pc' = "normalize"
       /\ pc = "normalize" /\ {"full_name", "location"} \cap df.columns = {} => df' = df
       /\ pc = "age_filter" /\ "age" \notin df.columns => df' = df /\ pc' = "email_filter"
       /\ pc = "email_filter" /\ "email_address" \notin df.columns => df' = df /\ pc' = "dedup"
       /\ pc = "dedup" /\ "email_address" \notin df.columns => df' = df /\ pc' = "date_filter"
       /\ pc = "date_filter" /\ "date_joined" \notin df.columns => df' = df /\ pc' = "write"]_vars

\* C13: the email dedup stage removes no record whose email_address is null
\* or blank; several records with a null or blank email are all kept.
C13_DedupKeepsBlankEmails ==
    [][pc = "dedup" /\ "email_address" \in df.columns =>
            \A i \in 1..Len(df.rows) :
                BlankOrNa(df.rows[i].v["email_address"])
                    => df.rows[i].index \in Indexes(df')]_vars

\* an age cell that holds a number outside [0, 120], before pd.to_numeric
NumericOutOfRange(c) ==
    \/ c.k = "num" /\ (c.n < 0 \/ c.n > 120)
    \/ c.k = "str" /\ IsNumText(c.s) /\ (ParseNum(c.s) < 0 \/ ParseNum(c.s) > 120)

\* C14: the age filter removes exactly the records whose age is present,
\* numeric and outside [0, 120]; a null or non-numeric age is never removed.
C14_AgeFilterRemovesOnlyOutOfRange ==
    [][pc = "age_filter" /\ "age" \in df.columns =>
            \A i \in 1..Len(df.rows) :
                df.rows[i].index \notin Indexes(df') <=> NumericOutOfRange(df.rows[i].v["age"])]_vars

C14_Witness ==
    /\ pc = "email_filter"
    /\ run = 1
    /\ rows_before = 2
    /\ Len(df.rows) = 1
    /\ <<"1", "2", "1">> \in SourceTexts("age")
    /\ \E r \in CleanedRows : Source(r, "age") = <<"x">> /\ IsNa(r.v["age"])

\* C15: clean_customer_data fails only when the source cannot be read or the
\* sink cannot be written, and then returns no report; with a readable
\* source and a writable sink it never raises, whatever the table holds.
C15_FailsOnlyOnIOErrors ==
    /\ pc = "raised" => ~source_readable \/ ~sink_writable
    /\ pc = "io_error" => (~source_readable \/ ~sink_writable) /\ output_csv = NoFile
    /\ source_readable /\ sink_writable => pc \notin {"raised", "io_error"}

IndexSeq(d) == [i \in 1..Len(d.rows) |-> d.rows[i].index]

\* s can be obtained from t by deleting elements
RECURSIVE IsSubsequence(_, _)
IsSubsequence(s, t) ==
    IF s = <<>> THEN TRUE
    ELSE IF t = <<>> THEN FALSE
    ELSE IF Head(s) = Head(t) THEN IsSubsequence(Tail(s), Tail(t))
    ELSE IsSubsequence(s, Tail(t))

StagePositions ==
    {"name_filter", "normalize", "age_filter", "email_filter", "dedup", "date_filter"}

StageKeepsOrder ==
    pc \in StagePositions /\ pc' # "raised" =>
        /\ IsSubsequence(IndexSeq(df'), IndexSeq(df))
        /\ \A i, j \in 1..Len(df'.rows) :
              i < j => df'.rows[i].index < df'.rows[j].index

\* C17: after every stage the table is a subsequence of the table before the
\* stage (no record added, duplicated or moved), so the cleaned records
\* appear in the row order of the input.
C17_StagesKeepOrder == [][StageKeepsOrder]_vars

C17_Witness ==
    /\ Returned
    /\ run = 1
    /\ Len(input_csv.rows) = 12
    /\ IndexSeq(df) = <<1, 5, 6, 7, 8, 11>>

\* the cell read_csv made of the input for the row a cleaned record came from
InputCell(r, c) == ReadCsv(input_csv).rows[r.index].v[c]

\* equal cells, or a numeric text and the number it denotes
SameValue(a, b) ==
    \/ a = b
    \/ a.k = "str" /\ IsNumText(a.s) /\ b.k = "num" /\ ParseNum(a.s) = b.n

\* C18 as stated: every field other than full_name and location of a
\* surviving record has the value it had in the input table.
C18_OnlyNameAndLocationRewritten ==
    Returned =>
        \A r \in CleanedRows : \A c \in df.columns \ {"full_name", "location"} :
            SameValue(InputCell(r, c), r.v[c])

\* C18 amended: every field other than full_name, location and age of a
\* surviving record has the value it had in the input table and is written
\* with its input text; age is rewritten by pd.to_numeric: a numeric age
\* keeps its number and a non-numeric age becomes null.
C18_OnlyNameLocationAgeRewritten ==
    Returned =>
        \A i \in 1..Len(df.rows) :
            LET r == df.rows[i]
            IN  /\ \A c \in df.columns \ {"full_name", "location", "age"} :
                      /\ r.v[c] = InputCell(r, c)
                      /\ output_csv.rows[i][c] = Source(r, c)
                /\ "age" \in df.columns =>
                      LET a == InputCell(r, "age")
                      IN  IF a.k = "num" \/ (a.k = "str" /\ IsNumText(a.s))
                          THEN SameValue(a, r.v["age"])
                          ELSE IsNa(r.v["age"])

C18_Witness ==
    /\ Returned
    /\ run = 1
    /\ \E r \in CleanedRows :
          /\ Source(r, "age") = <<"x">>
          /\ IsNa(r.v["age"])
          /\ r.v["email_address"] = Str(<<"a", "@", "b">>)

Validated == pc = "validated"

\* C19: whenever the table lacks a column the schema declares, validate
\* fails, and the violation names a declared column that the table lacks
\* and says that it is not in the table.
C19_MissingColumnNamed ==
    Validated /\ SchemaColumns \ input_csv.columns # {} =>
        /\ validation.status = "failed"
        /\ validation.reason = "column_not_in_dataframe"
        /\ validation.column \in SchemaColumns \ input_csv.columns

C19_Witness ==
    /\ Validated
    /\ Len(input_csv.rows) = 1
    /\ SchemaColumns \ input_csv.columns = {"age"}
    /\ validation = [status |-> "failed", column |-> "age",
                     reason |-> "column_not_in_dataframe"]

\* a table whose age column holds whole numbers only and whose other columns
\* all satisfy the schema
OtherwiseValidAges ==
    /\ "age" \in input_csv.columns
    /\ Len(input_csv.rows) > 0
    /\ \A i \in InputRowNumbers : IsIntText(InputText(i, "age"))
    /\ \A c \in SchemaColumns \ {"age"} : ~ColumnViolates(ReadCsv(input_csv), c)

\* C20: on an otherwise valid table validate fails naming age when some age
\* is below 0 or above 120, and passes when every age lies in 0..120.
C20_AgeRangeValidated ==
    Validated /\ OtherwiseValidAges =>
        IF \E i \in InputRowNumbers :
               ParseNum(InputText(i, "age")) < 0 \/ ParseNum(InputText(i, "age")) > 120
        THEN validation.status = "failed" /\ validation.column = "age"
        ELSE validation.status = "passed"

C20_Witness ==
    /\ Validated
    /\ OtherwiseValidAges
    /\ Len(input_csv.rows) = 2
    /\ InputText(1, "age") = <<"-", "1">>
    /\ InputText(2, "age") = <<"1", "2", "0">>
    /\ validation = [status |-> "failed", column |-> "age", reason |-> "check"]

\* a table with rows that has column col and whose other columns all satisfy
\* the schema
OtherwiseValid(col) ==
    /\ col \in input_csv.columns
    /\ Len(input_csv.rows) > 0
    /\ \A c \in SchemaColumns \ {col} : ~ColumnViolates(ReadCsv(input_csv), c)

HasAtSign(t) == \E k \in 1..Len(t) : t[k] = "@"

\* C21: on an otherwise valid table that holds an email which is not missing
\* and has no "@", validate fails and the violation names email_address.
C21_EmailWithoutAtRejected ==
    Validated /\ OtherwiseValid("email_address")
        /\ (\E i \in InputRowNumbers :
               /\ InputText(i, "email_address") \notin NaValues
               /\ ~HasAtSign(InputText(i, "email_address"))) =>
        /\ validation.status = "failed"
        /\ validation.column = "email_address"

C21_Witness ==
    /\ Validated
    /\ OtherwiseValid("email_address")
    /\ Len(input_csv.rows) = 2
    /\ InputText(1, "email_address") = <<"a", "@", "b">>
    /\ InputText(2, "email_address") = <<"a", "b">>
    /\ validation = [status |-> "failed", column |-> "email_address", reason |-> "check"]

\* C22: validate rejects an otherwise valid table holding an email that ends
\* with its "@", with no domain after it.
C22_EmailWithoutDomainRejected ==
    Validated /\ OtherwiseValid("email_address")
        /\ (\E i \in InputRowNumbers :
               LET t == InputText(i, "email_address")
               IN  Len(t) > 0 /\ t[Len(t)] = "@") =>
        validation.status = "failed"

\* the columns C23 lists as declared nullable
ListedNullable ==
    {"full_name", "email_address", "age", "gender", "phone_number",
     "utm_campaign", "utm_medium", "notes"}

\* a text that satisfies the value rule of column c
ValidText(c, t) ==
    CASE c = "age" -> IsIntText(t) /\ ParseNum(t) >= 0 /\ ParseNum(t) <= 120
      [] c = "email_address" -> HasAtSign(t)
      [] c = "gender" -> t \in Genders
      [] OTHER -> TRUE

\* the table's only irregularity is a null in column c: the other columns are
\* valid, and column c holds nulls next to at least one valid value
OnlyNullIn(c) ==
    /\ OtherwiseValid(c)
    /\ \E i \in InputRowNumbers : InputText(i, c) \in NaValues
    /\ \E i \in InputRowNumbers : InputText(i, c) \notin NaValues
    /\ \A i \in InputRowNumbers :
          InputText(i, c) \in NaValues \/ ValidText(c, InputText(i, c))

\* C23: validate accepts every table whose only irregularity is a null in
\* one of the columns declared nullable.
C23_NullableColumnsAcceptNull ==
    Validated =>
        \A c \in ListedNullable : OnlyNullIn(c) => validation.status = "passed"

\* C24: lead_source, utm_campaign, utm_medium and notes are nullable, so
\* validate accepts an otherwise valid table with a null in any of them.
C24_PassthroughColumnsNullable ==
    Validated =>
        \A c \in {"lead_source", "utm_campaign", "utm_medium", "notes"} :
            OnlyNullIn(c) => validation.status = "passed"

\* C25: every table validate accepts has every present age in 0..120, every
\* present email with an "@", no two records with the same non-blank email,
\* and every date_joined a real calendar date written yyyy-mm-dd.
C25_AcceptedTablesSatisfyInvariants ==
    Validated /\ validation.status = "passed" =>
        \A i \in InputRowNumbers :
            /\ InputText(i, "age") \in NaValues
                  \/ (IsNumText(InputText(i, "age"))
                        /\ ParseNum(InputText(i, "age")) >= 0
                        /\ ParseNum(InputText(i, "age")) <= 120)
            /\ InputText(i, "email_address") \in NaValues
                  \/ HasAtSign(InputText(i, "email_address"))
            /\ \A j \in InputRowNumbers \ {i} :
                  Present(InputText(i, "email_address")) =>
                      InputText(j, "email_address") # InputText(i, "email_address")
            /\ IsCalendarDate(InputText(i, "date_joined"))

\* C26: validate accepts a table with the columns customer_id, name, age,
\* email, phone, city, signup_date and gender whose values are all valid.
C26_TestTableAccepted ==
    Validated /\ input_csv.columns = TestColumns
        /\ (\A i \in InputRowNumbers :
               /\ ValidText("age", InputText(i, "age"))
               /\ HasAtSign(InputText(i, "email"))
               /\ IsCalendarDate(InputText(i, "signup_date"))
               /\ InputText(i, "gender") \in Genders) =>
        validation.status = "passed"

\* C27: on an otherwise valid table with no missing date_joined, validate
\* passes exactly when every date_joined is, as a whole, four digits, dash,
\* two digits, dash, two digits; otherwise the violation names date_joined.
C27_DatePatternExact ==
    Validated /\ OtherwiseValid("date_joined")
        /\ (\A i \in InputRowNumbers : InputText(i, "date_joined") \notin NaValues) =>
        IF \A i \in InputRowNumbers : IsDatePattern(InputText(i, "date_joined"))
        THEN validation.status = "passed"
        ELSE validation.status = "failed" /\ validation.column = "date_joined"

\* input row i passes the name, age and email-format filters
SurvivesFilters(i) ==
    /\ ~MissingNameAt(i)
    /\ ~AgeOutOfRangeAt(i)
    /\ ~EmailWithoutAtAt(i)

\* the first input row with email e among those passing the three filters;
\* 0 when there is none
FirstSurvivor(e) ==
    LET S == {i \in InputRowNumbers : SurvivesFilters(i) /\ InputText(i, "email_address") = e}
    IN  IF S = {} THEN 0 ELSE CHOOSE i \in S : \A j \in S : i <= j

\* C28: for every present email, the cleaned table holds exactly the first
\* record with that email among those that passed the name, age and
\* email-format filters, and holds it only if its date_joined is a valid
\* date; when that record's date is invalid, no record with the email is
\* left, whatever the dates of its later duplicates.
C28_DedupBeforeDateFilter ==
    Returned /\ run = 1 /\ input_csv.columns = SchemaColumns =>
        \A k \in InputRowNumbers :
            LET e == InputText(k, "email_address")
                f == FirstSurvivor(e)
                kept == {r \in CleanedRows : Source(r, "email_address") = e}
            IN  Present(e) =>
                    IF f # 0 /\ IsCalendarDate(InputText(f, "date_joined"))
                    THEN \E r \in kept : kept = {r} /\ r.index = f
                    ELSE kept = {}

C28_Witness ==
    /\ Returned
    /\ run = 1
    /\ Len(input_csv.rows) = 2
    /\ InputText(1, "email_address") = InputText(2, "email_address")
    /\ Present(InputText(1, "email_address"))
    /\ SurvivesFilters(1)
    /\ SurvivesFilters(2)
    /\ ~IsCalendarDate(InputText(1, "date_joined"))
    /\ IsCalendarDate(InputText(2, "date_joined"))
    /\ rows_after = 0

\* the other case of C28: the later duplicate is kept when the earlier
\* record with its email fell to the age filter
C28_LaterKept ==
    /\ Returned
    /\ run = 1
    /\ Len(input_csv.rows) = 2
    /\ InputText(1, "email_address") = InputText(2, "email_address")
    /\ AgeOutOfRangeAt(1)
    /\ IndexSeq(df) = <<2>>

DateFilterDropsMissing ==
    /\ pc = "date_filter" /\ "date_joined" \in df.columns =>
          \A i \in 1..Len(df'.rows) : ~IsNa(df'.rows[i].v["date_joined"])
    /\ pc' = "done" /\ "date_joined" \in input_csv.columns =>
          \A i \in 1..Len(df'.rows) :
              input_csv.rows[df'.rows[i].index]["date_joined"] \notin NaValues

\* C29: when date_joined is present, the date filter leaves no record whose
\* date_joined is missing, and no record of the cleaned table has an empty
\* or null date_joined in the input.
C29_MissingDateRemoved == [][DateFilterDropsMissing]_vars

C29_Witness ==
    /\ Returned
    /\ run = 1
    /\ Len(input_csv.rows) = 2
    /\ InputText(1, "date_joined") = <<>>
    /\ SurvivesFilters(1)
    /\ InputText(1, "email_address") # InputText(2, "email_address")
    /\ IndexSeq(df) = <<2>>

NullLocationAt(i) ==
    "location" \in input_csv.columns /\ InputText(i, "location") \in NaValues

\* a reason other than its location for which input row i is removed
RemovedForOtherReason(i) ==
    \/ MissingNameAt(i)
    \/ AgeOutOfRangeAt(i)
    \/ EmailWithoutAtAt(i)
    \/ "date_joined" \in input_csv.columns
          /\ ~IsCalendarDate(InputText(i, "date_joined"))
    \/ "email_address" \in input_csv.columns
          /\ \E j \in 1..(i - 1) :
                \/ InputText(j, "email_address") = InputText(i, "email_address")
                \/ /\ InputText(j, "email_address") \in NaValues
                   /\ InputText(i, "email_address") \in NaValues

NanText == <<"n", "a", "n">>

LocationRewrittenToNan ==
    /\ pc = "normalize" /\ "location" \in df.columns =>
          /\ Len(df'.rows) = Len(df.rows)
          /\ \A i \in 1..Len(df.rows) :
                IsNa(df.rows[i].v["location"]) => df'.rows[i].v["location"] = Str(NanText)
    /\ pc' = "done" /\ run = 1 =>
          \A k \in InputRowNumbers :
              NullLocationAt(k) =>
                  \/ \E i \in 1..Len(df'.rows) :
                        /\ df'.rows[i].index = k
                        /\ df'.rows[i].v["location"] = Str(NanText)
                        /\ output_csv'.rows[i]["location"] = NanText
                  \/ RemovedForOtherReason(k)

\* C30: the normalize stage removes no record and rewrites every null
\* location to the text "nan"; a record with a null location is in the
\* cleaned table, with location "nan" in the table and in the written file,
\* unless a rule about another column removed it.
C30_NullLocationBecomesNan == [][LocationRewrittenToNan]_vars

C30_Witness ==
    /\ Returned
    /\ run = 1
    /\ Len(input_csv.rows) = 1
    /\ NullLocationAt(1)
    /\ ~RemovedForOtherReason(1)
    /\ rows_after = 1
    /\ output_csv.rows[1]["location"] = NanText

====
